---- MODULE Spec2Model ----
(***************************************************************************)
(* Model of research/backtest_strategy.py: the BacktestEngine class         *)
(* (should_copy, execute_trade, run_backtest) and the part of main() that   *)
(* loads the trades, builds the engine and runs it.                         *)
(*                                                                          *)
(* Numbers.  Shares, prices and USD values are integers and scale_ratio is  *)
(* an integer, so every product the code forms is exact.  Probabilities     *)
(* and random samples are counted in units of 1/RngMod: a sample s stands   *)
(* for the float s/RngMod in [0,1), copy_probability p for p/RngMod.        *)
(***************************************************************************)
EXTENDS Integers, Sequences, FiniteSets, TLC

\* ---------------------------------------------------------------- bounds
\* longest feed (rows of the DataFrame) handed to run_backtest
MaxFeed == 2
\* number of run_backtest calls in one process
MaxRuns == 2
\* resolution of the random generator: samples are 0/RngMod .. (RngMod-1)/RngMod
RngMod == 4

\* ---------------------------------------------------------------- inputs
\* token ids are long decimal strings; a token is <<first 20 characters, rest>>,
\* so two of the tokens below share their first 20 characters
\* the rows a feed is built from (columns read by run_backtest, lines 94-98, 105)
Events ==
  { [timestamp_ms |-> 1, token_id |-> <<"7132104567", "88">>, side |-> "BUY",
     whale_shares |-> 100, whale_price |-> 50, whale_usd |-> 500],
    [timestamp_ms |-> 1, token_id |-> <<"7132104567", "93">>, side |-> "SELL",
     whale_shares |-> 5, whale_price |-> 40, whale_usd |-> 1200],
    [timestamp_ms |-> 2, token_id |-> <<"2174263314", "05">>, side |-> "BUY",
     whale_shares |-> 10, whale_price |-> 100, whale_usd |-> 1000],
    [timestamp_ms |-> 2, token_id |-> <<"7132104567", "88">>, side |-> "SELL",
     whale_shares |-> 100, whale_price |-> 60, whale_usd |-> 500] }

\* a float that may be +inf (max_position_usd accepts "inf" on the command line)
Finite(v) == [inf |-> FALSE, v |-> v]
Infinity == [inf |-> TRUE, v |-> 0]

\* x > m for a finite x and a possibly infinite m
Exceeds(x, m) == (~m.inf) /\ x > m.v

Config(scale, min, max, prob) ==
  [scale_ratio |-> scale, min_shares |-> min, max_position_usd |-> max,
   copy_probability |-> prob]

\* the constructor arguments (lines 31-41): the defaults, and settings that
\* scale the trades up, copy everything, copy nothing and copy half
Configs ==
  { Config(1, 10, Finite(1000), RngMod),
    Config(2, 10, Finite(1000), RngMod \div 2),
    Config(1, 0, Infinity, RngMod),
    Config(1, 10, Finite(1000), 0),
    Config(2, 0, Finite(1000), RngMod) }

IsSorted(s) == \A i \in 1..(Len(s) - 1) : s[i].timestamp_ms <= s[i + 1].timestamp_ms

NoRepeat(s) == \A i, j \in 1..Len(s) : i # j => s[i] # s[j]

\* the frames load_trades can return: ORDER BY timestamp_ms ASC (line 156)
Feeds ==
  { s \in UNION { [1..n -> Events] : n \in 0..MaxFeed } : IsSorted(s) /\ NoRepeat(s) }

\* a row whose whale_shares cell holds text instead of a number: the record has
\* no numeric whale_shares
MalformedRow ==
  [timestamp_ms |-> 1, token_id |-> <<"2174263314", "05">>, side |-> "BUY",
   whale_price |-> 50, whale_usd |-> 500]

\* a second BUY of the token of the first row of Events
SecondBuy ==
  [timestamp_ms |-> 2, token_id |-> <<"7132104567", "88">>, side |-> "BUY",
   whale_shares |-> 100, whale_price |-> 55, whale_usd |-> 550]

\* every kind of row the engine can be handed: run_backtest (lines 93-98) reads
\* the cells without checking them
AllEvents == Events \cup {MalformedRow, SecondBuy}

AllFeeds ==
  { s \in UNION { [1..n -> AllEvents] : n \in 0..MaxFeed } : IsSorted(s) /\ NoRepeat(s) }

\* every kind of argument the constructor accepts: __init__ (lines 38-41) stores
\* them without checking them.  A negative min_shares, a negative scale_ratio,
\* and a copy_probability above 1.
AllConfigs ==
  Configs \cup { Config(1, -10, Finite(1000), RngMod),
                 Config(-1, -200, Infinity, RngMod + 1) }

\* the row's cells are numbers
WellFormed(row) == "whale_shares" \in DOMAIN row

\* ---------------------------------------------------------------- state
VARIABLES
  pc,               \* "start", "ready", "replaying", "done", "exited"
  caller,           \* "none", "main" (the script), "lib" (the class used directly)
  exit_code,        \* -1 while the process runs, else the exit status
  cfg,              \* self.scale_ratio, min_shares, max_position_usd, copy_probability
  positions,        \* self.positions: token_id -> net shares
  entry_prices,     \* self.entry_prices: token_id -> list of <<shares, price>>
  trades_executed,  \* self.trades_executed
  trades_skipped,   \* self.trades_skipped
  total_volume_usd, \* self.total_volume_usd
  rng,              \* state of numpy's global generator
  df,               \* the DataFrame passed to run_backtest
  trades_df,        \* the sorted frame run_backtest iterates over
  idx,              \* next row of trades_df (1-based)
  execution_log,    \* the local list execution_log
  result,           \* the dict run_backtest returned last
  runs,             \* run_backtest calls started so far
  rng0,             \* generator state when the current run started
  prev              \* the run before the current one: its df, cfg, rng0, result

\* transfer_usdc.py, a separate script
VARIABLES
  t_pc,          \* position in main of transfer_usdc.py; "off" when it is not run
  private_key,   \* os.getenv("PRIVATE_KEY") is set
  yes_flag,      \* "--yes" in sys.argv
  rpc,           \* index into POLYGON_RPCS of the loop at line 67
  w3,            \* 0 for None, else the index of the RPC the Web3 object was built for
  connected,     \* what w3.is_connected() answered at line 76
  usdc_balance,  \* balanceOf(eoa), -1 before it is read
  matic_balance, \* get_balance(eoa) in units of 0.001 MATIC, -1 before it is read
  typed,         \* what input() returned; "" before it is called
  signed,        \* sign_transaction has returned
  sent,          \* send_raw_transaction has returned
  t_trace,       \* the checks passed so far and the signing and sending, in order
  t_exit         \* -1 while the script runs, else its exit status

tvars == << t_pc, private_key, yes_flag, rpc, w3, connected, usdc_balance,
            matic_balance, typed, signed, sent, t_trace, t_exit >>

bvars == << pc, caller, exit_code, cfg, positions, entry_prices, trades_executed,
            trades_skipped, total_volume_usd, rng, df, trades_df, idx,
            execution_log, result, runs, rng0, prev >>

vars == << bvars, tvars >>

engine == << cfg, positions, entry_prices, trades_executed, trades_skipped,
             total_volume_usd >>

NoConfig == << >>

NoResult == << >>

EmptyDict == << >>

\* ---------------------------------------------------------------- helpers
\* dict.get(k, 0)
Get(d, k) == IF k \in DOMAIN d THEN d[k] ELSE 0

\* d[k] = v, adding the key when it is absent
Put(d, k, v) == [x \in (DOMAIN d) \cup {k} |-> IF x = k THEN v ELSE d[x]]

Abs(x) == IF x < 0 THEN -x ELSE x

\* token_id[:20] + "..."
Truncate(token_id) == << token_id[1], "..." >>

\* np.random.random(): the sample the generator yields in state s, and its next state
Sample(s) == s

Advance(s) == (s + 1) % RngMod

\* ---------------------------------------------------------------- should_copy
\* should_copy with the max-position rule written with >= : a scaled usd equal
\* to max_position_usd is rejected
should_copy_ge(c, whale_shares, whale_usd, sample) ==
  LET our_shares == whale_shares * c.scale_ratio IN
  IF our_shares < c.min_shares
    THEN [copy |-> FALSE, reason |-> "SKIP: min shares", drew |-> FALSE]
  ELSE IF (~c.max_position_usd.inf) /\ whale_usd * c.scale_ratio >= c.max_position_usd.v
    THEN [copy |-> FALSE, reason |-> "SKIP: max position", drew |-> FALSE]
  ELSE IF sample > c.copy_probability
    THEN [copy |-> FALSE, reason |-> "SKIP: Random probability", drew |-> TRUE]
  ELSE [copy |-> TRUE, reason |-> "COPY", drew |-> TRUE]

\* BacktestEngine.should_copy, lines 50-67; sample is what np.random.random() would return if it is called.
\* drew tells whether it was called.
should_copy(c, whale_shares, whale_usd, sample) ==
  LET our_shares == whale_shares * c.scale_ratio IN
  IF our_shares < c.min_shares
    THEN [copy |-> FALSE, reason |-> "SKIP: min shares", drew |-> FALSE]
  ELSE IF Exceeds(whale_usd * c.scale_ratio, c.max_position_usd)
    THEN [copy |-> FALSE, reason |-> "SKIP: max position", drew |-> FALSE]
  ELSE IF sample > c.copy_probability
    THEN [copy |-> FALSE, reason |-> "SKIP: Random probability", drew |-> TRUE]
  ELSE [copy |-> TRUE, reason |-> "COPY", drew |-> TRUE]

\* ---------------------------------------------------------------- execute_trade
\* execute_trade whose SELL branch also records an entry lot
execute_trade_sell_lot(L, c, token_id, side, shares, price, usd) ==
  LET scaled_shares == shares * c.scale_ratio
      scaled_usd == usd * c.scale_ratio
      lots == IF token_id \in DOMAIN L.entry_prices THEN L.entry_prices[token_id]
                                                    ELSE << >>
  IN [ positions |->
         IF side = "BUY"
           THEN Put(L.positions, token_id, Get(L.positions, token_id) + scaled_shares)
           ELSE Put(L.positions, token_id, Get(L.positions, token_id) - scaled_shares),
       entry_prices |->
         Put(L.entry_prices, token_id, Append(lots, << scaled_shares, price >>)),
       trades_executed |-> L.trades_executed + 1,
       trades_skipped |-> L.trades_skipped,
       total_volume_usd |-> L.total_volume_usd + scaled_usd ]

\* lines 69-84, as a function of the engine's ledger fields
execute_trade(L, c, token_id, side, shares, price, usd) ==
  LET scaled_shares == shares * c.scale_ratio
      scaled_usd == usd * c.scale_ratio
  IN [ positions |->
         IF side = "BUY"
           THEN Put(L.positions, token_id, Get(L.positions, token_id) + scaled_shares)
           ELSE Put(L.positions, token_id, Get(L.positions, token_id) - scaled_shares),
       entry_prices |->
         IF side = "BUY"
           THEN Put(L.entry_prices, token_id,
                    Append(IF token_id \in DOMAIN L.entry_prices
                             THEN L.entry_prices[token_id] ELSE << >>,
                           << scaled_shares, price >>))
           ELSE L.entry_prices,
       trades_executed |-> L.trades_executed + 1,
       trades_skipped |-> L.trades_skipped,
       total_volume_usd |-> L.total_volume_usd + scaled_usd ]

\* the ledger fields of the engine as one record
Ledger ==
  [ positions |-> positions, entry_prices |-> entry_prices,
    trades_executed |-> trades_executed, trades_skipped |-> trades_skipped,
    total_volume_usd |-> total_volume_usd ]

\* the fields as __init__ sets them (lines 44-48)
EmptyLedger ==
  [ positions |-> EmptyDict, entry_prices |-> EmptyDict, trades_executed |-> 0,
    trades_skipped |-> 0, total_volume_usd |-> 0 ]

\* the loop body adding the scaled usd of a rejected row to the volume
process_row_counts_rejected(L, c, row, s) ==
  LET d == should_copy(c, row.whale_shares, row.whale_usd, s) IN
  IF d.copy
    THEN execute_trade(L, c, row.token_id, row.side, row.whale_shares,
                       row.whale_price, row.whale_usd)
    ELSE [L EXCEPT !.trades_skipped = @ + 1,
                   !.total_volume_usd = @ + row.whale_usd * c.scale_ratio]

\* one pass of the loop body (lines 94-123) over a row, on ledger L with sample s
process_row(L, c, row, s) ==
  LET d == should_copy(c, row.whale_shares, row.whale_usd, s) IN
  IF d.copy
    THEN execute_trade(L, c, row.token_id, row.side, row.whale_shares,
                       row.whale_price, row.whale_usd)
    ELSE [L EXCEPT !.trades_skipped = @ + 1]

\* the entry the loop body appends for a row (lines 104-112, 115-123)
log_entry(c, row, s) ==
  LET d == should_copy(c, row.whale_shares, row.whale_usd, s) IN
  [ timestamp_ms |-> row.timestamp_ms,
    token_id |-> Truncate(row.token_id),
    side |-> row.side,
    whale_shares |-> row.whale_shares,
    our_shares |-> IF d.copy THEN row.whale_shares * c.scale_ratio ELSE 0,
    price |-> row.whale_price,
    action |-> IF d.copy THEN "EXECUTED" ELSE d.reason ]

\* ---------------------------------------------------------------- sort_values
\* trades_df.sort_values("timestamp_ms") (line 89).  The default sort kind is
\* quicksort, which is not stable: rows with equal timestamps may come out in
\* any order.  The set of frames the call can return.
Orderings(n) == { p \in [1..n -> 1..n] : \A i, j \in 1..n : i # j => p[i] # p[j] }

sort_values(d) ==
  { s \in { [i \in 1..Len(d) |-> d[p[i]]] : p \in Orderings(Len(d)) } : IsSorted(s) }

\* execution_log[-20:]
LOG_TAIL == 20

Tail20(log) ==
  IF Len(log) <= LOG_TAIL THEN log ELSE SubSeq(log, Len(log) - LOG_TAIL + 1, Len(log))

\* the open-position test without abs(): short positions are not reported
IsOpen_signed(p) == p * 10000 > 1

\* abs(p) > 0.0001 for an integer number of shares p
IsOpen(p) == Abs(p) * 10000 > 1

\* the dict run_backtest returns (lines 125-140).  execution_rate is the exact
\* fraction <<numerator, denominator>> of executed * 100 / len; totals are
\* integers, so round(., 2) and round(., 4) leave them as they are.
make_result(L, c, frame, log) ==
  [ total_whale_trades |-> Len(frame),
    trades_executed |-> L.trades_executed,
    trades_skipped |-> L.trades_skipped,
    execution_rate |-> IF Len(frame) > 0 THEN << L.trades_executed * 100, Len(frame) >>
                                         ELSE << 0, 1 >>,
    total_volume_usd |-> L.total_volume_usd,
    open_positions |-> Cardinality({ k \in DOMAIN L.positions : IsOpen(L.positions[k]) }),
    positions |-> [ k \in { x \in DOMAIN L.positions : IsOpen(L.positions[x]) }
                      |-> L.positions[k] ],
    strategy_params |-> c,
    execution_log |-> Tail20(log) ]

\* ---------------------------------------------------------------- actions
\* transfer_usdc.py is not running
TransferOff ==
  /\ t_pc = "off"
  /\ private_key = FALSE
  /\ yes_flag = FALSE
  /\ rpc = 1
  /\ w3 = 0
  /\ connected = FALSE
  /\ usdc_balance = -1
  /\ matic_balance = -1
  /\ typed = ""
  /\ signed = FALSE
  /\ sent = FALSE
  /\ t_trace = << >>
  /\ t_exit = -1

Init ==
  /\ pc = "start"
  /\ caller = "none"
  /\ exit_code = -1
  /\ cfg = NoConfig
  /\ positions = EmptyDict
  /\ entry_prices = EmptyDict
  /\ trades_executed = 0
  /\ trades_skipped = 0
  /\ total_volume_usd = 0
  /\ rng \in 0..(RngMod - 1)
  /\ df = << >>
  /\ trades_df = << >>
  /\ idx = 1
  /\ execution_log = << >>
  /\ result = NoResult
  /\ runs = 0
  /\ rng0 = 0
  /\ prev = << >>
  /\ TransferOff

\* BacktestEngine.__init__ (lines 31-48) on the engine fields
InitEngine(c) ==
  /\ cfg' = c
  /\ positions' = EmptyDict
  /\ trades_executed' = 0
  /\ trades_skipped' = 0
  /\ total_volume_usd' = 0
  /\ entry_prices' = EmptyDict

\* the head of run_backtest (lines 86-91) on frame d: sort, empty log
StartRun(d) ==
  /\ df' = d
  /\ trades_df' \in sort_values(d)
  /\ execution_log' = << >>
  /\ idx' = 1
  /\ runs' = runs + 1
  /\ rng0' = rng
  /\ prev' = IF pc = "done"
               THEN << [df |-> df, cfg |-> cfg, rng0 |-> rng0, result |-> result] >>
               ELSE prev
  /\ pc' = "replaying"

\* main (lines 265-270): the database holds no trades
MainNoTrades ==
  /\ pc = "start"
  /\ caller = "none"
  /\ df' = << >>
  /\ caller' = "main"
  /\ exit_code' = 1
  /\ pc' = "exited"
  /\ UNCHANGED << engine, rng, trades_df, idx, execution_log, result, runs, rng0, prev >>
  /\ UNCHANGED tvars

\* main (lines 265-281): trades were loaded; build the engine and call run_backtest
MainRunOn(F, C) ==
  /\ pc = "start"
  /\ caller = "none"
  /\ \E d \in F, c \in C :
       /\ Len(d) > 0
       /\ InitEngine(c)
       /\ StartRun(d)
  /\ caller' = "main"
  /\ UNCHANGED << exit_code, rng, result >>
  /\ UNCHANGED tvars

MainRun == MainRunOn(Feeds, Configs)

\* main (lines 283-290): print the results and return
MainOutput ==
  /\ pc = "done"
  /\ caller = "main"
  /\ exit_code' = 0
  /\ pc' = "exited"
  /\ UNCHANGED << caller, engine, rng, df, trades_df, idx, execution_log, result,
                  runs, rng0, prev >>
  /\ UNCHANGED tvars

\* BacktestEngine(...) called by code that imports the class
ConstructOn(C) ==
  /\ pc = "start"
  /\ caller = "none"
  /\ \E c \in C : InitEngine(c)
  /\ caller' = "lib"
  /\ pc' = "ready"
  /\ UNCHANGED << exit_code, rng, df, trades_df, idx, execution_log, result, runs,
                  rng0, prev >>
  /\ UNCHANGED tvars

Construct == ConstructOn(Configs)

\* engine.run_backtest(d) called by code that imports the class (lines 86-91)
RunBacktestOn(F) ==
  /\ pc \in {"ready", "done"}
  /\ caller = "lib"
  /\ runs < MaxRuns
  /\ \E d \in F : StartRun(d)
  /\ UNCHANGED << caller, exit_code, engine, rng, result >>
  /\ UNCHANGED tvars

RunBacktest == RunBacktestOn(Feeds)

\* one iteration of the loop of run_backtest (lines 93-123)
ProcessRow ==
  /\ pc = "replaying"
  /\ idx <= Len(trades_df)
  /\ WellFormed(trades_df[idx])
  /\ LET row == trades_df[idx]
         d == should_copy(cfg, row.whale_shares, row.whale_usd, Sample(rng))
         L == process_row(Ledger, cfg, row, Sample(rng))
     IN /\ positions' = L.positions
        /\ entry_prices' = L.entry_prices
        /\ trades_executed' = L.trades_executed
        /\ trades_skipped' = L.trades_skipped
        /\ total_volume_usd' = L.total_volume_usd
        /\ execution_log' = Append(execution_log, log_entry(cfg, row, Sample(rng)))
        /\ rng' = IF d.drew THEN Advance(rng) ELSE rng
  /\ idx' = idx + 1
  /\ UNCHANGED << pc, caller, exit_code, cfg, df, trades_df, result, runs, rng0, prev >>
  /\ UNCHANGED tvars

\* the return of run_backtest (lines 125-140)
Return ==
  /\ pc = "replaying"
  /\ idx > Len(trades_df)
  /\ result' = make_result(Ledger, cfg, trades_df, execution_log)
  /\ pc' = "done"
  /\ UNCHANGED << caller, exit_code, engine, rng, df, trades_df, idx, execution_log,
                  runs, rng0, prev >>
  /\ UNCHANGED tvars

Next ==
  \/ MainNoTrades
  \/ MainRun
  \/ MainOutput
  \/ Construct
  \/ RunBacktest
  \/ ProcessRow
  \/ Return

Spec == Init /\ [][Next]_vars

\* an iteration of the loop on a row whose whale_shares is text: the product
\* whale_shares * self.scale_ratio (line 53) raises TypeError, which nothing
\* catches; run_backtest is left and, under main, the process ends with status 1
ProcessRowRaises ==
  /\ pc = "replaying"
  /\ idx <= Len(trades_df)
  /\ ~WellFormed(trades_df[idx])
  /\ pc' = "raised"
  /\ exit_code' = IF caller = "main" THEN 1 ELSE exit_code
  /\ UNCHANGED << caller, engine, rng, df, trades_df, idx, execution_log, result,
                  runs, rng0, prev >>
  /\ UNCHANGED tvars

MainRunAny == MainRunOn(AllFeeds, AllConfigs)

ConstructAny == ConstructOn(AllConfigs)

RunBacktestAny == RunBacktestOn(AllFeeds)

\* the program on unchecked input: any rows, any constructor arguments
NextAny ==
  \/ MainNoTrades
  \/ MainRunAny
  \/ MainOutput
  \/ ConstructAny
  \/ RunBacktestAny
  \/ ProcessRow
  \/ ProcessRowRaises
  \/ Return

SpecAny == Init /\ [][NextAny]_vars

\* ---------------------------------------------------------------- transfer_usdc.py
\* len(POLYGON_RPCS), lines 15-19
NUM_RPCS == 3

\* w3.to_wei(0.01, 'ether') in units of 0.001 MATIC, line 113
MIN_MATIC == 10

\* what the chain can answer for the two balances
UsdcBalances == {0, 1, 2500000}

MaticBalances == {0, 9, 10, 2000}

\* what the user can type at the prompt
Typed == {"yes", " YES ", "y", "no"}

\* confirm.strip().lower(), line 124
strip_lower(x) == IF x = " YES " THEN "yes" ELSE x

\* the gas test accepting any balance
gas_covered_any(matic) == matic >= 0

\* the test of line 113 passes: there is enough MATIC for gas
gas_covered(matic) == ~(matic < MIN_MATIC)

\* the test of line 125 passes
typed_yes(x) == ~(strip_lower(x) # "yes")

\* the script is started: the environment and the command line are given
InitTransfer ==
  /\ pc = "start"
  /\ caller = "none"
  /\ exit_code = -1
  /\ cfg = NoConfig
  /\ positions = EmptyDict
  /\ entry_prices = EmptyDict
  /\ trades_executed = 0
  /\ trades_skipped = 0
  /\ total_volume_usd = 0
  /\ rng = 0
  /\ df = << >>
  /\ trades_df = << >>
  /\ idx = 1
  /\ execution_log = << >>
  /\ result = NoResult
  /\ runs = 0
  /\ rng0 = 0
  /\ prev = << >>
  /\ t_pc = "key"
  /\ private_key \in BOOLEAN
  /\ yes_flag \in BOOLEAN
  /\ rpc = 1
  /\ w3 = 0
  /\ connected = FALSE
  /\ usdc_balance = -1
  /\ matic_balance = -1
  /\ typed = ""
  /\ signed = FALSE
  /\ sent = FALSE
  /\ t_trace = << >>
  /\ t_exit = -1

\* sys.exit(code), or an exception nothing catches (status 1)
Exit(code) == t_pc' = "exited" /\ t_exit' = code

\* lines 54-57: the private key
GetKey ==
  /\ t_pc = "key"
  /\ IF private_key THEN t_pc' = "connect" /\ t_exit' = t_exit ELSE Exit(1)
  /\ UNCHANGED << private_key, yes_flag, rpc, w3, connected, usdc_balance,
                  matic_balance, typed, signed, sent, t_trace >>
  /\ UNCHANGED bvars

\* lines 67-74: one iteration of the loop over POLYGON_RPCS.  The constructor
\* or is_connected() raises (w3 keeps its value), or is_connected() answers.
TryRpc ==
  /\ t_pc = "connect"
  /\ rpc <= NUM_RPCS
  /\ \E outcome \in {"raises", "down", "up"} :
       /\ w3' = IF outcome = "raises" THEN w3 ELSE rpc
       /\ IF outcome = "up"
            THEN t_pc' = "connected?" /\ rpc' = rpc
            ELSE /\ rpc' = rpc + 1
                 /\ t_pc' = IF rpc = NUM_RPCS THEN "connected?" ELSE "connect"
  /\ UNCHANGED << private_key, yes_flag, connected, usdc_balance, matic_balance,
                  typed, signed, sent, t_trace, t_exit >>
  /\ UNCHANGED bvars

\* lines 76-78: w3 is None, or is_connected() is asked again
CheckConnected ==
  /\ t_pc = "connected?"
  /\ \E up \in BOOLEAN :
       /\ connected' = (w3 # 0 /\ up)
       /\ IF w3 # 0 /\ up
            THEN /\ t_pc' = "balances"
                 /\ t_exit' = t_exit
                 /\ t_trace' = Append(t_trace, "connected")
            ELSE Exit(1) /\ t_trace' = t_trace
  /\ UNCHANGED << private_key, yes_flag, rpc, w3, usdc_balance, matic_balance,
                  typed, signed, sent >>
  /\ UNCHANGED bvars

\* lines 85-107: the account and the two balances are read; a call may raise
ReadBalances ==
  /\ t_pc = "balances"
  /\ \/ /\ Exit(1)
        /\ UNCHANGED << usdc_balance, matic_balance >>
     \/ /\ usdc_balance' \in UsdcBalances
        /\ matic_balance' \in MaticBalances
        /\ t_pc' = "usdc?"
        /\ t_exit' = t_exit
  /\ UNCHANGED << private_key, yes_flag, rpc, w3, connected, typed, signed, sent,
                  t_trace >>
  /\ UNCHANGED bvars

\* lines 109-111
CheckUsdc ==
  /\ t_pc = "usdc?"
  /\ IF usdc_balance = 0
       THEN Exit(0) /\ t_trace' = t_trace
       ELSE /\ t_pc' = "matic?"
            /\ t_exit' = t_exit
            /\ t_trace' = Append(t_trace, "usdc")
  /\ UNCHANGED << private_key, yes_flag, rpc, w3, connected, usdc_balance,
                  matic_balance, typed, signed, sent >>
  /\ UNCHANGED bvars

\* lines 113-115
CheckMatic ==
  /\ t_pc = "matic?"
  /\ IF gas_covered(matic_balance)
       THEN /\ t_pc' = "confirm"
            /\ t_exit' = t_exit
            /\ t_trace' = Append(t_trace, "matic")
       ELSE Exit(1) /\ t_trace' = t_trace
  /\ UNCHANGED << private_key, yes_flag, rpc, w3, connected, usdc_balance,
                  matic_balance, typed, signed, sent >>
  /\ UNCHANGED bvars

\* lines 122-133: --yes, or the prompt; input() may raise EOFError
Confirm ==
  /\ t_pc = "confirm"
  /\ IF yes_flag
       THEN /\ t_pc' = "build"
            /\ t_exit' = t_exit
            /\ typed' = typed
            /\ t_trace' = Append(t_trace, "confirmed")
       ELSE \/ /\ Exit(0)
               /\ UNCHANGED << typed, t_trace >>
            \/ \E x \in Typed :
                 /\ typed' = x
                 /\ IF typed_yes(x)
                      THEN /\ t_pc' = "build"
                           /\ t_exit' = t_exit
                           /\ t_trace' = Append(t_trace, "confirmed")
                      ELSE Exit(0) /\ t_trace' = t_trace
  /\ UNCHANGED << private_key, yes_flag, rpc, w3, connected, usdc_balance,
                  matic_balance, signed, sent >>
  /\ UNCHANGED bvars

\* lines 138-161: nonce, gas price, gas estimate, build_transaction; a call may raise
BuildTx ==
  /\ t_pc = "build"
  /\ \/ Exit(1)
     \/ t_pc' = "sign" /\ t_exit' = t_exit
  /\ UNCHANGED << private_key, yes_flag, rpc, w3, connected, usdc_balance,
                  matic_balance, typed, signed, sent, t_trace >>
  /\ UNCHANGED bvars

\* line 165
SignTx ==
  /\ t_pc = "sign"
  /\ signed' = TRUE
  /\ t_trace' = Append(t_trace, "signed")
  /\ t_pc' = "send"
  /\ UNCHANGED << private_key, yes_flag, rpc, w3, connected, usdc_balance,
                  matic_balance, typed, sent, t_exit >>
  /\ UNCHANGED bvars

\* line 169: the node accepts the transaction, or the call raises
SendTx ==
  /\ t_pc = "send"
  /\ \/ /\ Exit(1)
        /\ UNCHANGED << sent, t_trace >>
     \/ /\ sent' = TRUE
        /\ t_trace' = Append(t_trace, "sent")
        /\ t_pc' = "receipt"
        /\ t_exit' = t_exit
  /\ UNCHANGED << private_key, yes_flag, rpc, w3, connected, usdc_balance,
                  matic_balance, typed, signed >>
  /\ UNCHANGED bvars

\* lines 174-185: the receipt has status 1 (main returns), status 0, or the
\* wait times out
WaitReceipt ==
  /\ t_pc = "receipt"
  /\ \E code \in {0, 1} : Exit(code)
  /\ UNCHANGED << private_key, yes_flag, rpc, w3, connected, usdc_balance,
                  matic_balance, typed, signed, sent, t_trace >>
  /\ UNCHANGED bvars

NextTransfer ==
  \/ GetKey
  \/ TryRpc
  \/ CheckConnected
  \/ ReadBalances
  \/ CheckUsdc
  \/ CheckMatic
  \/ Confirm
  \/ BuildTx
  \/ SignTx
  \/ SendTx
  \/ WaitReceipt

SpecTransfer == InitTransfer /\ [][NextTransfer]_vars

\* ---------------------------------------------------------------- claims
\* rows of the current run processed so far
Processed == idx - 1

InRun == pc \in {"replaying", "done"}

\* C1: after every processed event of a run, trades_executed + trades_skipped is
\* the number of events processed so far, and the returned result has
\* trades_executed + trades_skipped = total_whale_trades.
C1_CountersMatchProcessed ==
  /\ InRun => trades_executed + trades_skipped = Processed
  /\ pc = "done" =>
       result.trades_executed + result.trades_skipped = result.total_whale_trades

\* signed copied shares (BUY +, SELL -) of the executed entries among the first n
\* log entries whose row trades token t; entry i is the one appended for row i
RECURSIVE SignedCopied(_, _, _, _)
SignedCopied(log, frame, t, n) ==
  IF n = 0 THEN 0
  ELSE SignedCopied(log, frame, t, n - 1)
       + (IF log[n].action = "EXECUTED" /\ frame[n].token_id = t
            THEN (IF log[n].side = "BUY" THEN log[n].our_shares ELSE -log[n].our_shares)
            ELSE 0)

TokensOf(evs) == { e.token_id : e \in evs }

\* C2: at every point of the replay the net position of every instrument is the
\* signed sum of our_shares of the executed log entries recorded for it so far.
C2_PositionIsSignedSumOfLog ==
  InRun =>
    \A t \in TokensOf(Events) :
      Get(positions, t) = SignedCopied(execution_log, trades_df, t, Len(execution_log))

\* the log entry e describes the row r
Describes(e, r) ==
  /\ e.timestamp_ms = r.timestamp_ms
  /\ e.token_id = Truncate(r.token_id)
  /\ e.side = r.side
  /\ e.whale_shares = r.whale_shares
  /\ e.price = r.whale_price

\* C3: the log holds one entry per input event, in the order the events were
\* supplied: the i-th entry describes the i-th event of the feed.
C3_LogFollowsInputOrder ==
  InRun =>
    /\ Len(execution_log) = Processed
    /\ pc = "done" => Len(execution_log) = Len(df)
    /\ \A i \in 1..Len(execution_log) : Describes(execution_log[i], df[i])

\* C4: a step of the replay rejects for minimum shares when the scaled shares
\* are below min_shares; else rejects for max position when the scaled usd is
\* above max_position_usd; else draws one sample, rejects for probability when
\* the sample is above copy_probability and executes otherwise.  No sample is
\* drawn unless both size rules pass; values equal to a threshold pass.
C4_RuleOrder ==
  [][ (pc = "replaying" /\ idx <= Len(trades_df) /\ idx' = idx + 1) =>
        LET row == trades_df[idx]
            shares == row.whale_shares * cfg.scale_ratio
            usd == row.whale_usd * cfg.scale_ratio
            entry == execution_log'[idx]
            small == shares < cfg.min_shares
            big == (~cfg.max_position_usd.inf) /\ usd > cfg.max_position_usd.v
        IN /\ small => entry.action = "SKIP: min shares" /\ rng' = rng
           /\ (~small /\ big) => entry.action = "SKIP: max position" /\ rng' = rng
           /\ (~small /\ ~big) =>
                /\ rng' = Advance(rng)
                /\ Sample(rng) > cfg.copy_probability =>
                     entry.action = "SKIP: Random probability"
                /\ Sample(rng) <= cfg.copy_probability =>
                     /\ entry.action = "EXECUTED"
                     /\ trades_executed' = trades_executed + 1
           /\ entry.action # "EXECUTED" =>
                trades_executed' = trades_executed /\ trades_skipped' = trades_skipped + 1
    ]_vars

\* a row whose scaled usd equals max_position_usd passed both size rules, a
\* sample was drawn for it and it was rejected for probability, after a row
\* that was executed
C4_Witness ==
  /\ pc = "replaying"
  /\ Len(execution_log) = 2
  /\ execution_log[1].action = "EXECUTED"
  /\ execution_log[2].action = "SKIP: Random probability"
  /\ ~cfg.max_position_usd.inf
  /\ trades_df[2].whale_usd * cfg.scale_ratio = cfg.max_position_usd.v
  /\ rng = Advance(Advance(rng0))

\* C5: two runs of the same feed with the same configuration that start from
\* the same generator state return identical results.
C5_SameInputsSameResult ==
  (pc = "done" /\ prev # << >>) =>
    ((prev[1].df = df /\ prev[1].cfg = cfg /\ prev[1].rng0 = rng0) =>
       prev[1].result = result)

\* C6: at the start of every run_backtest call the positions and entry lots are
\* empty and trades_executed, trades_skipped and the total volume are zero.
C6_RunStartsEmpty ==
  (pc = "replaying" /\ Processed = 0) => Ledger = EmptyLedger

\* the ledger and generator state after rows i..k of frame, from ledger L and
\* generator state s
RECURSIVE Replay(_, _, _, _, _, _)
Replay(L, c, frame, i, k, s) ==
  IF i > k THEN [ledger |-> L, rng |-> s]
  ELSE LET d == should_copy(c, frame[i].whale_shares, frame[i].whale_usd, Sample(s))
       IN Replay(process_row(L, c, frame[i], Sample(s)), c, frame, i + 1, k,
                 IF d.drew THEN Advance(s) ELSE s)

\* C7: after the first k events the ledger equals the final ledger of a fresh
\* run over those k events with the same samples.
C7_PrefixEqualsFreshRun ==
  InRun =>
    Ledger = Replay(EmptyLedger, cfg, SubSeq(trades_df, 1, Processed), 1, Processed,
                    rng0).ledger

\* C8: with copy_probability = 0 a run over a non-empty feed ends with
\* trades_executed = 0, whatever samples were drawn.
C8_ZeroProbabilityCopiesNothing ==
  (pc = "done" /\ cfg.copy_probability = 0 /\ Len(df) > 0) => trades_executed = 0

FullCopy == Config(1, 0, Infinity, RngMod)

\* C9: with copy_probability = 1, min_shares = 0, max_position_usd unbounded and
\* scale_ratio = 1 a run ends with trades_executed = number of events and
\* trades_skipped = 0.
C9_FullCopyExecutesAll ==
  (pc = "done" /\ cfg = FullCopy) =>
    /\ trades_executed = Len(df)
    /\ trades_skipped = 0
    /\ result.trades_executed = result.total_whale_trades

\* the program is past the point where the feed df was loaded or passed in
FeedHandled == pc \in {"done", "exited"}

\* C10: an empty feed gives a result with total events 0, trades_executed 0,
\* trades_skipped 0, volume 0, no positions and execution_rate 0, and no error exit.
C10_EmptyFeedIsValid ==
  (FeedHandled /\ Len(df) = 0) =>
    /\ exit_code # 1
    /\ result # NoResult
    /\ result.total_whale_trades = 0
    /\ result.trades_executed = 0
    /\ result.trades_skipped = 0
    /\ result.total_volume_usd = 0
    /\ result.open_positions = 0
    /\ DOMAIN result.positions = {}
    /\ result.execution_rate[1] = 0

\* the configuration the spec calls invalid: scale_ratio < 0, copy_probability
\* outside [0,1], or a negative threshold
InvalidConfig(c) ==
  \/ c.scale_ratio < 0
  \/ c.copy_probability < 0
  \/ c.copy_probability > RngMod
  \/ c.min_shares < 0
  \/ ((~c.max_position_usd.inf) /\ c.max_position_usd.v < 0)

\* C11: with an invalid configuration the run does not begin: no event is
\* evaluated and the ledger is never mutated.
C11_InvalidConfigNeverRuns ==
  (cfg # NoConfig /\ InvalidConfig(cfg)) =>
    /\ execution_log = << >>
    /\ Ledger = EmptyLedger

\* C12: a malformed event is logged with outcome MALFORMED and copied shares 0,
\* counted as skipped, leaves the ledger alone and never aborts the run.
C12_MalformedIsSkipped ==
  /\ pc # "raised"
  /\ InRun =>
       \A i \in 1..Len(execution_log) :
         ~WellFormed(trades_df[i]) =>
           /\ execution_log[i].action = "MALFORMED"
           /\ execution_log[i].our_shares = 0

\* scaled usd held in token t by the current run after its first n rows:
\* executed BUYs minus executed SELLs
RECURSIVE PositionUsd(_, _, _, _, _)
PositionUsd(log, frame, c, t, n) ==
  IF n = 0 THEN 0
  ELSE PositionUsd(log, frame, c, t, n - 1)
       + (IF log[n].action = "EXECUTED" /\ frame[n].token_id = t
            THEN (IF log[n].side = "BUY" THEN frame[n].whale_usd * c.scale_ratio
                                         ELSE -(frame[n].whale_usd * c.scale_ratio))
            ELSE 0)

\* C14: the position held in any single instrument, in scaled usd, never
\* exceeds max_position_usd.
C14_PositionWithinMax ==
  (InRun /\ ~InvalidConfig(cfg)) =>
    \A t \in TokensOf(AllEvents) :
      ~Exceeds(PositionUsd(execution_log, trades_df, cfg, t, Len(execution_log)),
               cfg.max_position_usd)

\* the values a caller could choose for log_tail_size
LogTailSizes == {1, LOG_TAIL}

\* the last k entries of log
LastK(log, k) == IF Len(log) <= k THEN log ELSE SubSeq(log, Len(log) - k + 1, Len(log))

\* C13: for the configured log_tail_size K the reported execution log is the
\* last K entries of the full log, of length min(K, number of events).
C13_TailOfConfiguredSize ==
  pc = "done" =>
    \A K \in LogTailSizes :
      /\ result.execution_log = LastK(execution_log, K)
      /\ Len(result.execution_log) = IF K < Len(trades_df) THEN K ELSE Len(trades_df)

\* a step of the loop of run_backtest that handled row idx
RowStep == pc = "replaying" /\ idx <= Len(trades_df) /\ idx' = idx + 1

SkipReasons == {"SKIP: min shares", "SKIP: max position", "SKIP: Random probability"}

\* C15: a rejected event leaves positions, entry lots, volume and
\* trades_executed as they were, adds exactly 1 to trades_skipped and appends one
\* log entry with our_shares 0 and the rejection reason; the ledger changes only
\* in a step that executes an event.
C15_RejectLeavesLedger ==
  [][ /\ (RowStep /\ execution_log'[idx].action # "EXECUTED") =>
          /\ positions' = positions
          /\ entry_prices' = entry_prices
          /\ total_volume_usd' = total_volume_usd
          /\ trades_executed' = trades_executed
          /\ trades_skipped' = trades_skipped + 1
          /\ Len(execution_log') = Len(execution_log) + 1
          /\ SubSeq(execution_log', 1, Len(execution_log)) = execution_log
          /\ execution_log'[idx].our_shares = 0
          /\ execution_log'[idx].action \in SkipReasons
      /\ (\/ positions' # positions
          \/ entry_prices' # entry_prices
          \/ total_volume_usd' # total_volume_usd
          \/ trades_executed' # trades_executed) =>
            (RowStep /\ execution_log'[idx].action = "EXECUTED")
    ]_vars

\* an event was rejected after another one had been executed
C15_Witness ==
  /\ pc = "replaying"
  /\ Len(execution_log) = 2
  /\ execution_log[1].action = "EXECUTED"
  /\ execution_log[2].action \in SkipReasons
  /\ trades_skipped = 1
  /\ trades_executed = 1
  /\ DOMAIN positions # {}
  /\ total_volume_usd > 0

\* number of entry lots of token t
Lots(ep, t) == IF t \in DOMAIN ep THEN Len(ep[t]) ELSE 0

\* executed BUYs of token t among the first n log entries
RECURSIVE ExecutedBuys(_, _, _, _)
ExecutedBuys(log, frame, t, n) ==
  IF n = 0 THEN 0
  ELSE ExecutedBuys(log, frame, t, n - 1)
       + (IF log[n].action = "EXECUTED" /\ log[n].side = "BUY" /\ frame[n].token_id = t
            THEN 1 ELSE 0)

\* C16: an instrument has entry lots only if a BUY for it was executed, and as
\* many lots as executed BUYs: every executed BUY adds one lot to its
\* instrument, and no other step (an executed SELL, a rejection) adds or
\* removes a lot.  Counted against the log in the engine's first run, and step
\* by step in every run.
C16_LotsCountExecutedBuys ==
  /\ [](\A t \in DOMAIN entry_prices : Len(entry_prices[t]) >= 1)
  /\ []((InRun /\ runs = 1) =>
          \A t \in TokensOf(Events) :
            Lots(entry_prices, t)
              = ExecutedBuys(execution_log, trades_df, t, Len(execution_log)))
  /\ [][ IF RowStep /\ execution_log'[idx].action = "EXECUTED"
              /\ execution_log'[idx].side = "BUY"
           THEN \A t \in TokensOf(Events) :
                  Lots(entry_prices', t)
                    = Lots(entry_prices, t) + (IF t = trades_df[idx].token_id THEN 1 ELSE 0)
           ELSE entry_prices' = entry_prices
       ]_vars

\* a BUY and then a SELL of the same instrument were executed: one lot
C16_Witness ==
  /\ pc = "replaying"
  /\ Len(execution_log) = 2
  /\ execution_log[1].action = "EXECUTED" /\ execution_log[1].side = "BUY"
  /\ execution_log[2].action = "EXECUTED" /\ execution_log[2].side = "SELL"
  /\ trades_df[1].token_id = trades_df[2].token_id
  /\ Lots(entry_prices, trades_df[1].token_id) = 1

\* C17: the reported positions are exactly the instruments whose net shares
\* exceed 1e-4 in magnitude, open_positions is their number, and an instrument
\* stays in the ledger whatever its net shares: a key of positions is never
\* removed and an executed trade adds to the value that was kept.
C17_ReportedPositionsAreOpenOnes ==
  /\ [](pc = "done" =>
          /\ DOMAIN result.positions
               = { t \in DOMAIN positions : Abs(positions[t]) * 10000 > 1 }
          /\ \A t \in DOMAIN result.positions : result.positions[t] = positions[t]
          /\ result.open_positions = Cardinality(DOMAIN result.positions))
  /\ [][ /\ DOMAIN positions \subseteq DOMAIN positions'
         /\ (RowStep /\ execution_log'[idx].action = "EXECUTED") =>
              LET t == trades_df[idx].token_id
                  n == execution_log'[idx].our_shares
              IN positions'[t] = Get(positions, t)
                                   + (IF trades_df[idx].side = "BUY" THEN n ELSE -n)
       ]_vars

\* a second run bought an instrument whose net shares were 0 at the end of the
\* first run: the first result did not report it, the ledger had kept it, and
\* a short position is reported next to it
C17_Witness ==
  /\ pc = "done"
  /\ runs = 2
  /\ prev # << >>
  /\ DOMAIN prev[1].result.positions = {}
  /\ prev[1].result.trades_executed = 2
  /\ \E t \in DOMAIN positions : positions[t] > 0
  /\ \E t \in DOMAIN positions : positions[t] < 0
  /\ result.open_positions = 2

\* scaled usd of the executed events among the first n rows of the current run
RECURSIVE ExecutedUsd(_, _, _, _)
ExecutedUsd(log, frame, c, n) ==
  IF n = 0 THEN 0
  ELSE ExecutedUsd(log, frame, c, n - 1)
       + (IF log[n].action = "EXECUTED" THEN frame[n].whale_usd * c.scale_ratio ELSE 0)

\* C18: at every point of the replay the cumulative volume is the sum of the
\* scaled usd of the events executed so far.
C18_VolumeIsSumOfExecuted ==
  InRun =>
    total_volume_usd = ExecutedUsd(execution_log, trades_df, cfg, Len(execution_log))

\* executed entries of a log
ExecutedIn(log) == Cardinality({ i \in 1..Len(log) : log[i].action = "EXECUTED" })

\* C19: execution_rate is the share of the run's events that were executed,
\* times 100, and 0 for an empty feed; it lies between 0 and 100.
C19_RateIsPercentage ==
  pc = "done" =>
    LET num == result.execution_rate[1]
        den == result.execution_rate[2]
    IN /\ den > 0
       /\ Len(trades_df) = 0 => num = 0
       /\ Len(trades_df) > 0 =>
            num * Len(trades_df) = ExecutedIn(execution_log) * 100 * den
       /\ 0 <= num
       /\ num <= 100 * den

\* the four checks, in the order the script makes them
Preconditions == << "connected", "usdc", "matic", "confirmed" >>

\* C20: a transaction is signed or sent only after an RPC connection succeeded,
\* the USDC.e balance was found non-zero, the MATIC balance was found to be at
\* least 0.01 and the transfer was confirmed, in this order; a run that ends
\* without all four has signed and sent nothing.
C20_SignOnlyAfterChecks ==
  /\ (signed \/ sent) =>
       /\ Len(t_trace) >= 5
       /\ SubSeq(t_trace, 1, 4) = Preconditions
       /\ t_trace[5] = "signed"
       /\ w3 # 0 /\ connected
       /\ usdc_balance > 0
       /\ matic_balance >= MIN_MATIC
       /\ (yes_flag \/ typed \in {"yes", " YES "})
  /\ sent => (signed /\ Len(t_trace) = 6 /\ t_trace[6] = "sent")
  /\ (t_pc = "exited" /\ ~(\A i \in 1..4 : Len(t_trace) >= i /\ t_trace[i] = Preconditions[i]))
       => (~signed /\ ~sent)

\* the transaction was sent after the user typed the confirmation, with exactly
\* the minimum MATIC, over the second RPC
C20_Witness ==
  /\ sent
  /\ ~yes_flag
  /\ typed = " YES "
  /\ matic_balance = MIN_MATIC
  /\ w3 = 2

====
